---- MODULE Spec2Model ----
(***************************************************************************)
(* Model of the AYCD desktop storage layer (src-tauri/src/services):       *)
(* file_service.rs, document_service.rs and project_service.rs over a      *)
(* filesystem of directories and files.                                     *)
(*                                                                         *)
(* Text is modelled character by character: a string is a sequence of      *)
(* one-character strings, so that sanitising, trimming, frontmatter        *)
(* parsing and JSON (de)serialisation are computed as the code computes    *)
(* them.  A path is a sequence of components, each component a string.     *)
(***************************************************************************)
EXTENDS Integers, Sequences, FiniteSets, TLC

VARIABLES
    dirs,      \* set of paths that are directories
    files,     \* function: path of a regular file -> [content, mtime, btime]
    now,       \* the clock (seconds): Utc::now() and file modification times
    nextId,    \* number of ids handed out by uuid::Uuid::new_v4()
    last,      \* the last store call: its name, its arguments and its result
    pc,        \* concurrent write_file calls: the position of each caller
    wtmp,      \* concurrent write_file calls: each caller's open temp file
    names,     \* concurrent filesystem: path -> inode (0: no such file)
    inodes     \* concurrent filesystem: inode -> the bytes it holds

vars == <<dirs, files, now, nextId, last, pc, wtmp, names, inodes>>

-----------------------------------------------------------------------------
(* Bounds of the model.                                                    *)

MaxTime == 1
MaxIds == 2
MaxLines == 4

-----------------------------------------------------------------------------
(* Strings: sequences of characters.                                       *)

NL == "\n"

Digits == <<"0", "1", "2", "3", "4", "5", "6", "7", "8", "9">>

IsDigit(c) == \E i \in 1..10 : Digits[i] = c

DigitVal(c) == (CHOOSE i \in 1..10 : Digits[i] = c) - 1

\* char::is_whitespace, for the characters the model uses
IsWhitespace(c) == c \in {" ", "\n", "\t", "\r"}

RECURSIVE Concat(_)
Concat(ss) == IF ss = <<>> THEN <<>> ELSE Head(ss) \o Concat(Tail(ss))

StartsWith(s, p) == Len(s) >= Len(p) /\ SubSeq(s, 1, Len(p)) = p

EndsWith(s, p) == Len(s) >= Len(p) /\ SubSeq(s, Len(s) - Len(p) + 1, Len(s)) = p

\* str::find: 0-based byte offset of the first match of p in s, or -1 (None)
Find(s, p) ==
    LET hits == {i \in 0..(Len(s) - Len(p)) : SubSeq(s, i + 1, i + Len(p)) = p}
    IN  IF hits = {} THEN -1 ELSE CHOOSE i \in hits : \A j \in hits : i <= j

\* 0-based offset of the last occurrence of character c in s, or -1
RFindChar(s, c) ==
    LET hits == {i \in 0..(Len(s) - 1) : s[i + 1] = c}
    IN  IF hits = {} THEN -1 ELSE CHOOSE i \in hits : \A j \in hits : i >= j

\* s[from..] with a 0-based offset, as a Rust slice
From(s, from) == SubSeq(s, from + 1, Len(s))

\* str::trim
TrimStart(s) ==
    LET keep == {i \in 1..Len(s) : ~IsWhitespace(s[i])}
    IN  IF keep = {} THEN <<>>
        ELSE SubSeq(s, CHOOSE i \in keep : \A j \in keep : i <= j, Len(s))

TrimEnd(s) ==
    LET keep == {i \in 1..Len(s) : ~IsWhitespace(s[i])}
    IN  IF keep = {} THEN <<>>
        ELSE SubSeq(s, 1, CHOOSE i \in keep : \A j \in keep : i >= j)

Trim(s) == TrimEnd(TrimStart(s))

\* str::trim_start_matches(p): strips every leading repetition of p
RECURSIVE TrimStartMatches(_, _)
TrimStartMatches(s, p) ==
    IF p # <<>> /\ StartsWith(s, p) THEN TrimStartMatches(From(s, Len(p)), p) ELSE s

\* str::split('\n') : the pieces between line feeds (always at least one piece)
RECURSIVE SplitOn(_, _)
SplitOn(s, c) ==
    LET Cut(i) == IF i = -1 THEN <<s>>
                  ELSE <<SubSeq(s, 1, i)>> \o SplitOn(From(s, i + 1), c)
    IN  Cut(Find(s, <<c>>))

\* str::lines: split at line feeds, a final empty piece dropped, a trailing
\* carriage return of each line removed
Lines(s) ==
    LET Strip(kept) == [i \in 1..Len(kept) |-> IF EndsWith(kept[i], <<"\r">>)
                                                THEN SubSeq(kept[i], 1, Len(kept[i]) - 1)
                                                ELSE kept[i]]
        Keep(pieces) == Strip(IF pieces[Len(pieces)] = <<>>
                              THEN SubSeq(pieces, 1, Len(pieces) - 1) ELSE pieces)
    IN  Keep(SplitOn(s, NL))

\* str::split_once(c): [found, key, value]
SplitOnce(s, c) ==
    LET Cut(i) == IF i = -1 THEN [found |-> FALSE, key |-> <<>>, value |-> <<>>]
                  ELSE [found |-> TRUE, key |-> SubSeq(s, 1, i), value |-> From(s, i + 1)]
    IN  Cut(Find(s, <<c>>))

RECURSIVE DigitsValue(_)
DigitsValue(s) ==
    IF s = <<>> THEN 0
    ELSE 10 * DigitsValue(SubSeq(s, 1, Len(s) - 1)) + DigitVal(s[Len(s)])

\* str::parse::<i64>: an optional sign and at least one digit, nothing else
ParseI64(s) ==
    LET Parsed(negative, ds) ==
            IF ds # <<>> /\ \A i \in 1..Len(ds) : IsDigit(ds[i])
            THEN [ok |-> TRUE, val |-> IF negative THEN 0 - DigitsValue(ds) ELSE DigitsValue(ds)]
            ELSE [ok |-> FALSE, val |-> 0]
    IN  IF s # <<>> /\ s[1] \in {"+", "-"} THEN Parsed(s[1] = "-", Tail(s)) ELSE Parsed(FALSE, s)

\* the decimal text of an integer, as format!("{}", n) and serde_json write it
RECURSIVE NatToStr(_)
NatToStr(n) ==
    IF n < 10 THEN <<Digits[n + 1]>> ELSE NatToStr(n \div 10) \o <<Digits[(n % 10) + 1]>>

IntToStr(n) == IF n < 0 THEN <<"-">> \o NatToStr(0 - n) ELSE NatToStr(n)

\* str::split_whitespace().count()
count_words(text) ==
    Cardinality({i \in 1..Len(text) :
        /\ ~IsWhitespace(text[i])
        /\ (i = 1 \/ IsWhitespace(text[i - 1]))})

-----------------------------------------------------------------------------
(* Paths (std::path): a path is the sequence of its components.            *)

Str_md == <<"m", "d">>
Str_tmp == <<"t", "m", "p">>

Last(p) == p[Len(p)]

Parent(p) == SubSeq(p, 1, Len(p) - 1)

\* Path::file_name: the last component, unless the path is empty or ends in ".."
HasFileName(p) == p # <<>> /\ Last(p) # <<".", ".">>

\* Path::file_stem of a file name: the part before the last '.', the whole
\* name when it has no '.' or only a leading one
file_stem(name) ==
    LET Cut(i) == IF i <= 0 THEN name ELSE SubSeq(name, 1, i)
    IN  Cut(RFindChar(name, "."))

\* Path::extension of a file name: [some, ext]
extension(name) ==
    LET Cut(i) == IF i <= 0 THEN [some |-> FALSE, ext |-> <<>>]
                  ELSE [some |-> TRUE, ext |-> From(name, i + 1)]
    IN  Cut(RFindChar(name, "."))

\* Path::with_extension: the file name cut to its stem, then "." and ext
with_extension(p, ext) ==
    IF ~HasFileName(p) THEN p
    ELSE Parent(p) \o <<file_stem(Last(p)) \o <<".">> \o ext>>

\* Path::to_string_lossy of an absolute path
RECURSIVE PathToStr(_)
PathToStr(p) == IF p = <<>> THEN <<>> ELSE <<"/">> \o Head(p) \o PathToStr(Tail(p))

\* PathBuf::from(text): the components between separators; empty pieces
\* (a leading, a doubled or a trailing separator) are no components
PathFromStr(s) == SelectSeq(SplitOn(s, "/"), LAMBDA c : c # <<>>)

\* PathBuf::push / Path::join of a text: an absolute text replaces the path
Join(base, text) ==
    IF StartsWith(text, <<"/">>) THEN PathFromStr(text) ELSE base \o PathFromStr(text)

-----------------------------------------------------------------------------
(* The filesystem (std::fs) as the sequential store calls use it.  A       *)
(* filesystem value is [dirs, files]; files maps a path to its content,    *)
(* modification time and creation time.                                    *)

Exists(fs, p) == p \in fs.dirs \/ p \in DOMAIN fs.files

IsFile(fs, p) == p \in DOMAIN fs.files

IsDir(fs, p) == p \in fs.dirs

Prefixes(p) == {SubSeq(p, 1, n) : n \in 0..Len(p)}

\* fs::create_dir_all: every missing ancestor is created; fails when a
\* component of the path is a regular file
create_dir_all(fs, p) ==
    IF \E q \in Prefixes(p) : IsFile(fs, q)
    THEN [ok |-> FALSE, fs |-> fs]
    ELSE [ok |-> TRUE, fs |-> [fs EXCEPT !.dirs = @ \cup Prefixes(p)]]

\* fs::write: creates or truncates the file and writes the whole content
fs_write(fs, clock, p, content) ==
    IF p = <<>> \/ ~IsDir(fs, Parent(p)) \/ IsDir(fs, p)
    THEN [ok |-> FALSE, fs |-> fs]
    ELSE LET birth == IF IsFile(fs, p) THEN fs.files[p].btime ELSE clock
             entry == [content |-> content, mtime |-> clock, btime |-> birth]
             keep == [q \in DOMAIN fs.files \ {p} |-> fs.files[q]]
         IN  [ok |-> TRUE, fs |-> [fs EXCEPT !.files = keep @@ (p :> entry)]]

\* fs::rename of a regular file: replaces a file at the destination, fails
\* when the destination is a directory or its parent is missing
fs_rename(fs, from, to) ==
    IF ~IsFile(fs, from) \/ to = <<>> \/ IsDir(fs, to) \/ ~IsDir(fs, Parent(to))
    THEN [ok |-> FALSE, fs |-> fs]
    ELSE IF from = to THEN [ok |-> TRUE, fs |-> fs]
    ELSE LET keep == [q \in DOMAIN fs.files \ {from, to} |-> fs.files[q]]
         IN  [ok |-> TRUE, fs |-> [fs EXCEPT !.files = keep @@ (to :> fs.files[from])]]

\* fs::remove_file
fs_remove_file(fs, p) ==
    IF ~IsFile(fs, p) THEN [ok |-> FALSE, fs |-> fs]
    ELSE [ok |-> TRUE,
          fs |-> [fs EXCEPT !.files = [q \in DOMAIN fs.files \ {p} |-> fs.files[q]]]]

\* fs::read_dir: the entries directly under a directory
ReadDir(fs, d) == {p \in fs.dirs \cup DOMAIN fs.files : p # <<>> /\ Parent(p) = d}

-----------------------------------------------------------------------------
(* file_service.rs                                                         *)

ensure_dir(fs, p) == IF Exists(fs, p) THEN [ok |-> TRUE, fs |-> fs] ELSE create_dir_all(fs, p)

write_file(fs, clock, path, content) ==
    LET Written(temp_path, w) == IF ~w.ok THEN [ok |-> FALSE, fs |-> fs]
                                 ELSE fs_rename(w.fs, temp_path, path)
        Temp(temp_path) == Written(temp_path, fs_write(fs, clock, temp_path, content))
    IN  Temp(with_extension(path, Str_tmp))

\* A byte that occurs in no UTF-8 text (0xFF)
BadByte == "0xFF"

\* String::from_utf8 accepts the bytes
IsUtf8(content) == \A i \in DOMAIN content : content[i] # BadByte

\* fs::read_to_string: fails on a path that is no regular file and on a file
\* whose bytes are not UTF-8
read_file(fs, p) ==
    IF IsFile(fs, p) /\ IsUtf8(fs.files[p].content)
    THEN [ok |-> TRUE, content |-> fs.files[p].content]
    ELSE [ok |-> FALSE, content |-> <<>>]

-----------------------------------------------------------------------------
(* document_service.rs: the pure helpers                                   *)

Str_title == <<"t", "i", "t", "l", "e">>
Str_id == <<"i", "d">>
Str_created == <<"c", "r", "e", "a", "t", "e", "d">>
Str_Untitled == <<"U", "n", "t", "i", "t", "l", "e", "d">>
Str_delim_open == <<"-", "-", "-", "\n">>
Str_delim_close == <<"\n", "-", "-", "-", "\n">>
Str_heading == <<"#", " ">>

InvalidFilenameChars == {"/", "\\", ":", "*", "?", "\"", "<", ">", "|"}

sanitize_filename(name) ==
    Trim([i \in 1..Len(name) |-> IF name[i] \in InvalidFilenameChars THEN "-" ELSE name[i]])

\* A serde_json::Value of the frontmatter map: a number or a string
NumValue(n) == [kind |-> "num", num |-> n, str |-> <<>>]

StrValue(s) == [kind |-> "str", num |-> 0, str |-> s]

\* One line of the frontmatter block inserted into the map (a later line with
\* the same key replaces the earlier one)
InsertLine(map, line) ==
    LET Parsed(num, value) == IF num.ok THEN NumValue(num.val) ELSE StrValue(value)
        Typed(value) == Parsed(ParseI64(value), value)
        Insert(key, value) ==
            [k \in (DOMAIN map) \cup {key} |-> IF k = key THEN Typed(value) ELSE map[k]]
        Split(kv) == IF ~kv.found THEN map ELSE Insert(Trim(kv.key), Trim(kv.value))
    IN  Split(SplitOnce(line, ":"))

RECURSIVE InsertLines(_, _)
InsertLines(map, lines) ==
    IF lines = <<>> THEN map ELSE InsertLines(InsertLine(map, Head(lines)), Tail(lines))

\* parse_frontmatter: [map, body]
parse_frontmatter(content) ==
    LET Split(end_pos) ==
            IF end_pos = -1
            THEN [map |-> <<>>, body |-> content]
            ELSE [map |-> InsertLines(<<>>, Lines(SubSeq(content, 5, end_pos + 4))),
                  body |-> From(content, end_pos + 9)]
    IN  IF ~StartsWith(content, Str_delim_open)
        THEN [map |-> <<>>, body |-> content]
        ELSE Split(Find(From(content, 4), Str_delim_close))

\* frontmatter.get(key).and_then(|v| v.as_str()): [some, str]
GetStr(map, key) ==
    IF key \in DOMAIN map /\ map[key].kind = "str"
    THEN [some |-> TRUE, str |-> map[key].str]
    ELSE [some |-> FALSE, str |-> <<>>]

\* frontmatter.get(key).and_then(|v| v.as_i64()): [some, num]
GetI64(map, key) ==
    IF key \in DOMAIN map /\ map[key].kind = "num"
    THEN [some |-> TRUE, num |-> map[key].num]
    ELSE [some |-> FALSE, num |-> 0]

\* body.lines().find(|line| line.starts_with("# ")): [some, line]
FirstHeading(body) ==
    LET First(ls, hits) ==
            IF hits = {} THEN [some |-> FALSE, line |-> <<>>]
            ELSE [some |-> TRUE, line |-> ls[CHOOSE i \in hits : \A j \in hits : i <= j]]
        Among(ls) == First(ls, {i \in 1..Len(ls) : StartsWith(ls[i], Str_heading)})
    IN  Among(Lines(body))

\* The title of read_document: frontmatter string, else first heading, else
\* file stem, else "Untitled"
DeriveTitle(map, body, document_path) ==
    LET Pick(fm, h) ==
            IF fm.some THEN fm.str
            ELSE IF h.some THEN Trim(TrimStartMatches(h.line, Str_heading))
            ELSE IF HasFileName(document_path) THEN file_stem(Last(document_path))
            ELSE Str_Untitled
    IN  Pick(GetStr(map, Str_title), FirstHeading(body))

\* The file create_document writes:
\* "---\nid: {}\ntitle: {}\ncreated: {}\n---\n\n# {}\n\n"
NewDocumentContent(id, title, clock) ==
    Concat(<< <<"-", "-", "-", "\n", "i", "d", ":", " ">>, id,
              <<"\n", "t", "i", "t", "l", "e", ":", " ">>, title,
              <<"\n", "c", "r", "e", "a", "t", "e", "d", ":", " ">>, IntToStr(clock),
              <<"\n", "-", "-", "-", "\n", "\n", "#", " ">>, title,
              <<"\n", "\n">> >>)

\* uuid::Uuid::new_v4().to_string(): a fresh, non-empty, non-numeric text
Uuid(n) == <<"u", "-">> \o NatToStr(n)

-----------------------------------------------------------------------------
(* document_service.rs: the store calls.  Each takes the filesystem and    *)
(* returns [ok, err, fs, ...].                                             *)

DocDir(project_path, category, subcategory) ==
    IF subcategory = <<>> THEN Join(project_path, category)
    ELSE Join(Join(project_path, category), subcategory[1])

DocPath(project_path, title, category, subcategory) ==
    Join(DocDir(project_path, category, subcategory),
         sanitize_filename(title) \o <<".">> \o Str_md)

\* create_document without its check that the file already exists
create_document_unchecked(fs, clock, id, project_path, title, category, subcategory) ==
    LET Written(w, doc_path) ==
            IF ~w.ok THEN [ok |-> FALSE, err |-> "Io", fs |-> w.fs]
            ELSE [ok |-> TRUE, err |-> "", fs |-> w.fs,
                  document |-> [id |-> id, project_id |-> <<>>, path |-> PathToStr(doc_path),
                                title |-> title, content |-> <<>>, word_count |-> 0,
                                created_at |-> clock, modified_at |-> clock]]
        Ensured(e, doc_path) ==
            IF ~e.ok THEN [ok |-> FALSE, err |-> "Io", fs |-> fs]
            ELSE Written(write_file(e.fs, clock, doc_path,
                                    NewDocumentContent(id, title, clock)), doc_path)
    IN  Ensured(ensure_dir(fs, DocDir(project_path, category, subcategory)),
                DocPath(project_path, title, category, subcategory))

create_document(fs, clock, id, project_path, title, category, subcategory) ==
    LET Written(w, doc_path) ==
            IF ~w.ok THEN [ok |-> FALSE, err |-> "Io", fs |-> w.fs]
            ELSE [ok |-> TRUE, err |-> "", fs |-> w.fs,
                  document |-> [id |-> id, project_id |-> <<>>, path |-> PathToStr(doc_path),
                                title |-> title, content |-> <<>>, word_count |-> 0,
                                created_at |-> clock, modified_at |-> clock]]
        Ensured(e, doc_path) ==
            IF ~e.ok THEN [ok |-> FALSE, err |-> "Io", fs |-> fs]
            ELSE IF Exists(e.fs, doc_path)
            THEN [ok |-> FALSE, err |-> "AlreadyExists", fs |-> e.fs]
            ELSE Written(write_file(e.fs, clock, doc_path,
                                    NewDocumentContent(id, title, clock)), doc_path)
    IN  Ensured(ensure_dir(fs, DocDir(project_path, category, subcategory)),
                DocPath(project_path, title, category, subcategory))

read_document(fs, document_path) ==
    LET Read(f, fm, id, created) ==
            [ok |-> TRUE, err |-> "",
             document |->
                [id |-> IF id.some THEN id.str ELSE <<>>,
                 project_id |-> <<>>,
                 path |-> PathToStr(document_path),
                 title |-> DeriveTitle(fm.map, fm.body, document_path),
                 content |-> f.content,
                 word_count |-> count_words(fm.body),
                 created_at |-> IF created.some THEN created.num ELSE f.btime,
                 modified_at |-> f.mtime]]
        Parsed(f, fm) == Read(f, fm, GetStr(fm.map, Str_id), GetI64(fm.map, Str_created))
        File(f) == Parsed(f, parse_frontmatter(f.content))
    IN  IF ~Exists(fs, document_path) THEN [ok |-> FALSE, err |-> "NotFound"]
        ELSE IF ~read_file(fs, document_path).ok THEN [ok |-> FALSE, err |-> "Io"]
        ELSE File(fs.files[document_path])

\* update_document without its check that the path exists
update_document_unchecked(fs, clock, document_path, content) ==
    LET Written(w) == [ok |-> w.ok, err |-> IF w.ok THEN "" ELSE "Io", fs |-> w.fs]
    IN  Written(write_file(fs, clock, document_path, content))

update_document(fs, clock, document_path, content) ==
    LET Written(w) == [ok |-> w.ok, err |-> IF w.ok THEN "" ELSE "Io", fs |-> w.fs]
    IN  IF ~Exists(fs, document_path) THEN [ok |-> FALSE, err |-> "NotFound", fs |-> fs]
        ELSE Written(write_file(fs, clock, document_path, content))

delete_document(fs, document_path) ==
    LET Removed(r) == [ok |-> r.ok, err |-> IF r.ok THEN "" ELSE "Io", fs |-> r.fs]
    IN  IF ~Exists(fs, document_path) THEN [ok |-> FALSE, err |-> "NotFound", fs |-> fs]
        ELSE Removed(fs_remove_file(fs, document_path))

\* The comparator with its operands exchanged: earliest modified first
by_modified_ascending(a, b) == a.modified_at < b.modified_at

\* |a, b| b.modified_at.cmp(&a.modified_at): a is ordered strictly before b
\* when it was modified later (the same comparator sorts documents in
\* list_documents_in_dir and list_all_documents and projects in list_projects)
by_modified(a, b) == b.modified_at < a.modified_at

\* Vec::sort_by with that comparator, a stable sort: each element in turn is
\* placed after the elements already placed that do not come after it
RECURSIVE InsertSorted(_, _)
InsertSorted(sorted, x) ==
    IF sorted = <<>> THEN <<x>>
    ELSE IF by_modified(x, Head(sorted)) THEN <<x>> \o sorted
    ELSE <<Head(sorted)>> \o InsertSorted(Tail(sorted), x)

RECURSIVE StableSort(_)
StableSort(v) ==
    IF v = <<>> THEN <<>>
    ELSE InsertSorted(StableSort(SubSeq(v, 1, Len(v) - 1)), v[Len(v)])

\* The sequences that enumerate a finite set, each element once: the orders
\* in which fs::read_dir may yield a directory's entries
Enumerations(S) == {e \in [1..Cardinality(S) -> S] : \A x \in S : \E i \in DOMAIN e : e[i] = x}

IsMarkdown(fs, p) ==
    /\ IsFile(fs, p)
    /\ HasFileName(p)
    /\ extension(Last(p)) = [some |-> TRUE, ext |-> Str_md]

\* The loop of list_documents_in_dir and of collect_documents_recursive over
\* the paths in the order given: a record per document read, a failed read skipped
RECURSIVE ReadAll(_, _)
ReadAll(fs, paths) ==
    LET Pushed(r) == IF r.ok THEN <<r.document>> ELSE <<>>
    IN  IF paths = <<>> THEN <<>>
        ELSE Pushed(read_document(fs, Head(paths))) \o ReadAll(fs, Tail(paths))

\* list_documents_in_dir, the directory's entries yielded in the order given
list_documents_in_dir(fs, dir_path, order) ==
    IF ~Exists(fs, dir_path) THEN [ok |-> TRUE, documents |-> <<>>]
    ELSE IF ~IsDir(fs, dir_path) THEN [ok |-> FALSE, documents |-> <<>>]
    ELSE [ok |-> TRUE,
          documents |-> StableSort(ReadAll(fs, SelectSeq(order, LAMBDA p : IsMarkdown(fs, p))))]

\* The walk without its descent into subdirectories: the markdown files
\* directly under dir
collect_documents_flat(fs, dir) ==
    {p \in ReadDir(fs, dir) : ~IsDir(fs, p) /\ IsMarkdown(fs, p)}

\* collect_documents_recursive: the markdown files at any depth under dir
RECURSIVE collect_documents_recursive(_, _)
collect_documents_recursive(fs, dir) ==
    {p \in ReadDir(fs, dir) : ~IsDir(fs, p) /\ IsMarkdown(fs, p)}
        \cup UNION {collect_documents_recursive(fs, d) : d \in {p \in ReadDir(fs, dir) : IsDir(fs, p)}}

Str_WORLD == <<"W", "O", "R", "L", "D">>
Str_NARRATIVE == <<"N", "A", "R", "R", "A", "T", "I", "V", "E">>

\* list_all_documents, the files found in the order given
list_all_documents(fs, project_path, order) ==
    IF \E c \in {Str_WORLD, Str_NARRATIVE} : IsFile(fs, Join(project_path, c))
    THEN [ok |-> FALSE, documents |-> <<>>]
    ELSE [ok |-> TRUE, documents |-> StableSort(ReadAll(fs, order))]

-----------------------------------------------------------------------------
(* serde_json, for the Project record of models/mod.rs:                    *)
(* [id, name, path, created_at, modified_at], serialised with the keys      *)
(* id, name, path, createdAt, modifiedAt.                                   *)

Str_name == <<"n", "a", "m", "e">>
Str_path == <<"p", "a", "t", "h">>
Str_createdAt == <<"c", "r", "e", "a", "t", "e", "d", "A", "t">>
Str_created_at == <<"c", "r", "e", "a", "t", "e", "d", "_", "a", "t">>
Str_modifiedAt == <<"m", "o", "d", "i", "f", "i", "e", "d", "A", "t">>
Str_modified_at == <<"m", "o", "d", "i", "f", "i", "e", "d", "_", "a", "t">>

\* A character written into a JSON string as it is, with no escape
JsonEscapeChar_raw(c) == <<c>>

\* One character inside a JSON string, escaped as serde_json writes it
JsonEscapeChar(c) ==
    CASE c = "\"" -> <<"\\", "\"">>
      [] c = "\\" -> <<"\\", "\\">>
      [] c = "\n" -> <<"\\", "n">>
      [] c = "\t" -> <<"\\", "t">>
      [] c = "\r" -> <<"\\", "r">>
      [] OTHER -> <<c>>

RECURSIVE JsonEscape(_)
JsonEscape(s) == IF s = <<>> THEN <<>> ELSE JsonEscapeChar(Head(s)) \o JsonEscape(Tail(s))

JsonString(s) == <<"\"">> \o JsonEscape(s) \o <<"\"">>

\* serde_json::to_string_pretty(&project): one member per line, two spaces
JsonMember(key, text, more) ==
    <<" ", " ">> \o JsonString(key) \o <<":", " ">> \o text
        \o (IF more THEN <<",">> ELSE <<>>) \o <<"\n">>

to_string_pretty(project) ==
    Concat(<< <<"{", "\n">>,
              JsonMember(Str_id, JsonString(project.id), TRUE),
              JsonMember(Str_name, JsonString(project.name), TRUE),
              JsonMember(Str_path, JsonString(project.path), TRUE),
              JsonMember(Str_createdAt, IntToStr(project.created_at), TRUE),
              JsonMember(Str_modifiedAt, IntToStr(project.modified_at), FALSE),
              <<"}">> >>)

\* The reader: positions are 1-based indices into the text; a position past
\* the end reads as the end of input.
At(s, i) == IF i >= 1 /\ i <= Len(s) THEN s[i] ELSE "EOF"

RECURSIVE SkipWs(_, _)
SkipWs(s, i) == IF At(s, i) \in {" ", "\n", "\t", "\r"} THEN SkipWs(s, i + 1) ELSE i

JsonFail == [ok |-> FALSE, next |-> 0]

\* The characters of a string literal from position i (after the opening
\* quote) up to the closing quote: [ok, str, next]
RECURSIVE JsonReadChars(_, _, _)
JsonReadChars(s, i, acc) ==
    LET c == At(s, i)
        e == At(s, i + 1)
    IN  CASE c = "\"" -> [ok |-> TRUE, str |-> acc, next |-> i + 1]
          [] c = "EOF" -> JsonFail
          [] c \in {"\n", "\t", "\r"} -> JsonFail
          [] c = "\\" ->
                CASE e = "\"" -> JsonReadChars(s, i + 2, Append(acc, "\""))
                  [] e = "\\" -> JsonReadChars(s, i + 2, Append(acc, "\\"))
                  [] e = "/" -> JsonReadChars(s, i + 2, Append(acc, "/"))
                  [] e = "n" -> JsonReadChars(s, i + 2, Append(acc, "\n"))
                  [] e = "t" -> JsonReadChars(s, i + 2, Append(acc, "\t"))
                  [] e = "r" -> JsonReadChars(s, i + 2, Append(acc, "\r"))
                  [] OTHER -> JsonFail
          [] OTHER -> JsonReadChars(s, i + 1, Append(acc, c))

JsonReadString(s, i) == IF At(s, i) = "\"" THEN JsonReadChars(s, i + 1, <<>>) ELSE JsonFail

RECURSIVE DigitsEnd(_, _)
DigitsEnd(s, i) == IF IsDigit(At(s, i)) THEN DigitsEnd(s, i + 1) ELSE i

\* An integer literal at position i: an optional '-', then "0" or digits not
\* starting with 0; a fraction or an exponent is no integer: [ok, num, next]
JsonReadInt(s, i) ==
    LET Literal(neg, ds, to) ==
            IF ds = <<>> \/ (Len(ds) > 1 /\ ds[1] = "0") \/ At(s, to) \in {".", "e", "E"}
            THEN JsonFail
            ELSE [ok |-> TRUE, num |-> IF neg THEN 0 - DigitsValue(ds) ELSE DigitsValue(ds),
                  next |-> to]
        Span(neg, from, to) == Literal(neg, SubSeq(s, from, to - 1), to)
        From1(neg, from) == Span(neg, from, DigitsEnd(s, from))
    IN  IF At(s, i) = "-" THEN From1(TRUE, i + 1) ELSE From1(FALSE, i)

\* A member value: a string or an integer (the descriptor holds no other kind)
JsonReadValue(s, i) ==
    LET String(str) == IF str.ok
                       THEN [ok |-> TRUE, next |-> str.next, value |-> StrValue(str.str)]
                       ELSE JsonFail
        Integer(int) == IF int.ok
                        THEN [ok |-> TRUE, next |-> int.next, value |-> NumValue(int.num)]
                        ELSE JsonFail
    IN  IF At(s, i) = "\"" THEN String(JsonReadString(s, i)) ELSE Integer(JsonReadInt(s, i))

\* The rest of a member whose key has been read: the colon and the value
JsonReadMemberValue(s, key) ==
    LET Value(val) == IF val.ok
                      THEN [ok |-> TRUE, key |-> key.str, value |-> val.value,
                            next |-> SkipWs(s, val.next)]
                      ELSE JsonFail
        Colon(colon) == IF At(s, colon) # ":" THEN JsonFail
                        ELSE Value(JsonReadValue(s, SkipWs(s, colon + 1)))
    IN  IF ~key.ok THEN JsonFail ELSE Colon(SkipWs(s, key.next))

\* One member from position i (at its key): [ok, key, value, next], next the
\* position of what follows the value
JsonReadMember(s, i) == JsonReadMemberValue(s, JsonReadString(s, i))

\* The members of an object from position i (at a key) to the closing brace:
\* [ok, members, next], members a sequence of [key, value]
RECURSIVE JsonReadMembers(_, _, _)
JsonReadMembers(s, i, acc) ==
    LET Member(m, members) ==
            IF ~m.ok THEN JsonFail
            ELSE IF At(s, m.next) = "}"
            THEN [ok |-> TRUE, members |-> members, next |-> m.next + 1]
            ELSE IF At(s, m.next) = ","
            THEN JsonReadMembers(s, SkipWs(s, m.next + 1), members)
            ELSE JsonFail
        Read(m) == Member(m, IF m.ok THEN Append(acc, [key |-> m.key, value |-> m.value])
                             ELSE acc)
    IN  Read(JsonReadMember(s, i))

\* The members between the braces, from position first after the opening one
JsonReadBody(s, first) ==
    IF At(s, first) = "}" THEN [ok |-> TRUE, members |-> <<>>, next |-> first + 1]
    ELSE JsonReadMembers(s, first, <<>>)

\* A whole text as one object of string and integer members: [ok, members]
JsonReadObject(s) ==
    LET Body(ms) == IF ~ms.ok \/ SkipWs(s, ms.next) <= Len(s)
                    THEN [ok |-> FALSE, members |-> <<>>]
                    ELSE [ok |-> TRUE, members |-> ms.members]
        Open(open) == IF At(s, open) # "{" THEN [ok |-> FALSE, members |-> <<>>]
                      ELSE Body(JsonReadBody(s, SkipWs(s, open + 1)))
    IN  Open(SkipWs(s, 1))

\* The field of Project a key names (rename_all = "camelCase", with the
\* aliases created_at and modified_at); "" for a key of no field
ProjectField(key) ==
    CASE key = Str_id -> "id"
      [] key = Str_name -> "name"
      [] key = Str_path -> "path"
      [] key \in {Str_createdAt, Str_created_at} -> "created_at"
      [] key \in {Str_modifiedAt, Str_modified_at} -> "modified_at"
      [] OTHER -> ""

\* The derived Deserialize of Project over the members in order: a member of
\* no field is ignored, a field given twice or with a value of the wrong kind
\* is an error: [ok, got], got a function from the fields given to their values
RECURSIVE ProjectFields(_, _)
ProjectFields(members, got) ==
    IF members = <<>> THEN [ok |-> TRUE, got |-> got]
    ELSE LET m == Head(members)
             f == ProjectField(m.key)
         IN  IF f = "" THEN ProjectFields(Tail(members), got)
             ELSE IF \/ f \in DOMAIN got
                     \/ m.value.kind # (IF f \in {"created_at", "modified_at"}
                                        THEN "num" ELSE "str")
             THEN [ok |-> FALSE, got |-> got]
             ELSE ProjectFields(Tail(members),
                                [k \in (DOMAIN got) \cup {f} |-> IF k = f THEN m.value ELSE got[k]])

NoProject == [id |-> <<>>, name |-> <<>>, path |-> <<>>, created_at |-> 0, modified_at |-> 0]

\* The Project of a complete set of fields
ProjectOf(got) ==
    [id |-> got["id"].str, name |-> got["name"].str, path |-> got["path"].str,
     created_at |-> got["created_at"].num, modified_at |-> got["modified_at"].num]

\* serde_json::from_str::<Project>: [ok, project]
from_str(text) ==
    LET Built(fields) ==
            IF ~fields.ok
               \/ DOMAIN fields.got # {"id", "name", "path", "created_at", "modified_at"}
            THEN [ok |-> FALSE, project |-> NoProject]
            ELSE [ok |-> TRUE, project |-> ProjectOf(fields.got)]
        Read(obj) == IF ~obj.ok THEN [ok |-> FALSE, project |-> NoProject]
                     ELSE Built(ProjectFields(obj.members, <<>>))
    IN  Read(JsonReadObject(text))

-----------------------------------------------------------------------------
(* project_service.rs                                                      *)

Str_AYCD == <<"A", "Y", "C", "D">>
Str_projects == <<"p", "r", "o", "j", "e", "c", "t", "s">>
Str_project_json == <<"p", "r", "o", "j", "e", "c", "t", ".", "j", "s", "o", "n">>
Str_Drafts == <<"D", "r", "a", "f", "t", "s">>

\* dirs::home_dir(), and get_projects_root: home/AYCD/projects
HomeDir == << <<"h", "o", "m", "e">> >>

get_projects_root == Join(Join(HomeDir, Str_AYCD), Str_projects)

\* The directories init_project_structure ensures, in its order
ProjectStructure(project_path) ==
    << project_path,
       Join(Join(project_path, Str_WORLD), <<"C", "a", "s", "t">>),
       Join(Join(project_path, Str_WORLD), <<"P", "l", "a", "c", "e", "s">>),
       Join(Join(project_path, Str_WORLD), <<"O", "b", "j", "e", "c", "t", "s">>),
       Join(Join(project_path, Str_WORLD), <<"S", "y", "s", "t", "e", "m", "s">>),
       Join(Join(project_path, Str_WORLD), <<"L", "o", "r", "e">>),
       Join(Join(project_path, Str_NARRATIVE), Str_Drafts),
       Join(Join(project_path, Str_NARRATIVE), <<"F", "i", "n", "a", "l">>),
       Join(Join(project_path, Str_NARRATIVE), <<"R", "e", "s", "e", "a", "r", "c", "h">>),
       Join(Join(project_path, Str_NARRATIVE), <<"P", "l", "a", "n", "n", "i", "n", "g">>),
       Join(project_path, <<"c", "a", "c", "h", "e">>),
       Join(project_path, <<"s", "e", "a", "r", "c", "h">>) >>

\* ensure_dir on each directory in turn, stopping at the first failure
RECURSIVE EnsureDirs(_, _)
EnsureDirs(fs, ds) ==
    LET Ensured(e) == IF e.ok THEN EnsureDirs(e.fs, Tail(ds)) ELSE [ok |-> FALSE, fs |-> e.fs]
    IN  IF ds = <<>> THEN [ok |-> TRUE, fs |-> fs] ELSE Ensured(ensure_dir(fs, Head(ds)))

init_project_structure(fs, project_path) == EnsureDirs(fs, ProjectStructure(project_path))

\* create_project; custom_path is <<>> (None) or <<path>> (Some)
create_project(fs, clock, id, name, custom_path) ==
    LET Written(w, project) ==
            IF ~w.ok THEN [ok |-> FALSE, err |-> "Io", fs |-> w.fs]
            ELSE [ok |-> TRUE, err |-> "", fs |-> w.fs, project |-> project]
        Built(i, project_path, project) ==
            IF ~i.ok THEN [ok |-> FALSE, err |-> "Io", fs |-> i.fs]
            ELSE Written(write_file(i.fs, clock, Join(project_path, Str_project_json),
                                    to_string_pretty(project)), project)
        Under(project_path) ==
            IF Exists(fs, project_path) THEN [ok |-> FALSE, err |-> "AlreadyExists", fs |-> fs]
            ELSE Built(init_project_structure(fs, project_path), project_path,
                       [id |-> id, name |-> name, path |-> PathToStr(project_path),
                        created_at |-> clock, modified_at |-> clock])
    IN  Under(IF custom_path # <<>> THEN Join(custom_path[1], name)
              ELSE Join(get_projects_root, name))

open_project(fs, project_path) ==
    LET Parsed(parsed) == IF ~parsed.ok THEN [ok |-> FALSE, err |-> "CorruptDescriptor"]
                          ELSE [ok |-> TRUE, err |-> "", project |-> parsed.project]
        Read(content) == IF ~content.ok THEN [ok |-> FALSE, err |-> "Io"]
                         ELSE Parsed(from_str(content.content))
        Descriptor(project_json_path) ==
            IF ~Exists(fs, project_json_path) THEN [ok |-> FALSE, err |-> "InvalidProject"]
            ELSE Read(read_file(fs, project_json_path))
    IN  Descriptor(Join(project_path, Str_project_json))

\* The loop of list_projects over the entries in the order given: a record
\* per directory that opens, the others skipped
RECURSIVE OpenAll(_, _)
OpenAll(fs, paths) ==
    LET Pushed(r) == IF r.ok THEN <<r.project>> ELSE <<>>
    IN  IF paths = <<>> THEN <<>>
        ELSE (IF IsDir(fs, Head(paths)) THEN Pushed(open_project(fs, Head(paths))) ELSE <<>>)
                \o OpenAll(fs, Tail(paths))

\* list_projects, the entries of the projects root yielded in the order given
list_projects(fs, order) ==
    IF ~Exists(fs, get_projects_root) THEN [ok |-> TRUE, projects |-> <<>>]
    ELSE IF ~IsDir(fs, get_projects_root) THEN [ok |-> FALSE, projects |-> <<>>]
    ELSE [ok |-> TRUE, projects |-> StableSort(OpenAll(fs, order))]

update_project(fs, clock, project) ==
    LET Written(w) == [ok |-> w.ok, err |-> IF w.ok THEN "" ELSE "Io", fs |-> w.fs]
    IN  Written(write_file(fs, clock, Join(PathFromStr(project.path), Str_project_json),
                           to_string_pretty(project)))

-----------------------------------------------------------------------------
(* The store as a state machine.  Every call is one action: it reads the   *)
(* filesystem [dirs, files], writes it back and records the call in last.  *)

FS == [dirs |-> dirs, files |-> files]

SetFS(fs) == dirs' = fs.dirs /\ files' = fs.files

NoWriters == UNCHANGED <<pc, wtmp, names, inodes>>

\* The directory the calls are given as a custom projects root
CustomRoot == << <<"t", "m", "p">> >>

\* Inputs of the calls
ProjectNames == {<<"n">>, <<"q", "\"">>}

CustomPaths == {<<>>, <<CustomRoot>>}

ProjectDirs == {Join(r, n) : r \in {CustomRoot, get_projects_root}, n \in ProjectNames}

DocProjectPaths == {Join(CustomRoot, <<"n">>)}

Categories == {Str_NARRATIVE, Str_WORLD}

Subcategories == {<<>>, <<Str_Drafts>>}

DocDirs == {DocDir(r, c, sc) : r \in DocProjectPaths, c \in Categories, sc \in Subcategories}

MissingDoc == Join(Join(Join(CustomRoot, <<"n">>), Str_NARRATIVE), <<"z", ".", "m", "d">>)

Projects == {d \in ProjectDirs : IsDir(FS, d)}

SeqInit ==
    /\ dirs = Prefixes(HomeDir) \cup Prefixes(CustomRoot)
    /\ files = <<>>
    /\ now = 0
    /\ nextId = 0
    /\ last = [op |-> "init"]
    /\ pc = <<>>
    /\ wtmp = <<>>
    /\ names = <<>>
    /\ inodes = <<>>

\* Time passes
Tick ==
    /\ now < MaxTime
    /\ now' = now + 1
    /\ last' = [op |-> "tick"]
    /\ UNCHANGED <<dirs, files, nextId>>
    /\ NoWriters

CreateDocument(titles, categories, subcategories) ==
    \E project_path \in DocProjectPaths, title \in titles,
       category \in categories, subcategory \in subcategories :
      \E r \in {create_document(FS, now, Uuid(nextId), project_path, title,
                                 category, subcategory)} :
        /\ r.ok => nextId < MaxIds
        /\ SetFS(r.fs)
        /\ nextId' = IF r.ok THEN nextId + 1 ELSE nextId
        /\ last' = [op |-> "create_document", title |-> title,
                    path |-> DocPath(project_path, title, category, subcategory),
                    result |-> [f \in DOMAIN r \ {"fs"} |-> r[f]]]
        /\ UNCHANGED now
        /\ NoWriters

ReadDocument(paths) ==
    \E path \in paths :
        /\ last' = [op |-> "read_document", path |-> path, result |-> read_document(FS, path)]
        /\ UNCHANGED <<dirs, files, now, nextId>>
        /\ NoWriters

UpdateDocument(paths, contents) ==
    \E path \in paths, content \in contents :
      \E r \in {update_document(FS, now, path, content)} :
        /\ SetFS(r.fs)
        /\ last' = [op |-> "update_document", path |-> path, content |-> content,
                    result |-> [ok |-> r.ok, err |-> r.err]]
        /\ UNCHANGED <<now, nextId>>
        /\ NoWriters

DeleteDocument(paths) ==
    \E path \in paths :
      \E r \in {delete_document(FS, path)} :
        /\ SetFS(r.fs)
        /\ last' = [op |-> "delete_document", path |-> path,
                    result |-> [ok |-> r.ok, err |-> r.err]]
        /\ UNCHANGED <<now, nextId>>
        /\ NoWriters

ListDocumentsInDir(ds) ==
    \E dir_path \in ds : \E order \in Enumerations(ReadDir(FS, dir_path)) :
        /\ last' = [op |-> "list_documents_in_dir", path |-> dir_path, order |-> order,
                    result |-> list_documents_in_dir(FS, dir_path, order)]
        /\ UNCHANGED <<dirs, files, now, nextId>>
        /\ NoWriters

\* The files under WORLD are collected before those under NARRATIVE; within
\* each, read_dir's order is any order
ListAllDocuments ==
    \E project_path \in DocProjectPaths :
      \E w \in Enumerations(IF IsDir(FS, Join(project_path, Str_WORLD))
                            THEN collect_documents_recursive(FS, Join(project_path, Str_WORLD))
                            ELSE {}) :
      \E n \in Enumerations(IF IsDir(FS, Join(project_path, Str_NARRATIVE))
                            THEN collect_documents_recursive(FS, Join(project_path, Str_NARRATIVE))
                            ELSE {}) :
        /\ last' = [op |-> "list_all_documents", path |-> project_path, order |-> w \o n,
                    result |-> list_all_documents(FS, project_path, w \o n)]
        /\ UNCHANGED <<dirs, files, now, nextId>>
        /\ NoWriters

CreateProject(project_names, custom_paths) ==
    \E name \in project_names, custom_path \in custom_paths :
      \E r \in {create_project(FS, now, Uuid(nextId), name, custom_path)} :
        /\ r.ok => nextId < MaxIds
        /\ SetFS(r.fs)
        /\ nextId' = IF r.ok THEN nextId + 1 ELSE nextId
        /\ last' = [op |-> "create_project", name |-> name, custom_path |-> custom_path,
                    result |-> [f \in DOMAIN r \ {"fs"} |-> r[f]]]
        /\ UNCHANGED now
        /\ NoWriters

OpenProject ==
    \E project_path \in ProjectDirs \cup {CustomRoot} :
        /\ last' = [op |-> "open_project", path |-> project_path,
                    result |-> open_project(FS, project_path)]
        /\ UNCHANGED <<dirs, files, now, nextId>>
        /\ NoWriters

ListProjects ==
    \E order \in Enumerations(ReadDir(FS, get_projects_root)) :
        /\ last' = [op |-> "list_projects", order |-> order,
                    result |-> list_projects(FS, order)]
        /\ UNCHANGED <<dirs, files, now, nextId>>
        /\ NoWriters

\* The records update_project is called with: the path of a project
\* directory there is, a name, an id handed out before or the empty id, the
\* current time as time of modification
UpdateRecords ==
    [id : {<<>>} \cup {Uuid(i) : i \in 0..(nextId - 1)},
     name : ProjectNames,
     path : {PathToStr(d) : d \in Projects},
     created_at : {0},
     modified_at : {now}]

UpdateProject ==
    \E project \in UpdateRecords :
      \E r \in {update_project(FS, now, project)} :
        /\ SetFS(r.fs)
        /\ last' = [op |-> "update_project", project |-> project,
                    result |-> [ok |-> r.ok, err |-> r.err]]
        /\ UNCHANGED <<now, nextId>>
        /\ NoWriters

-----------------------------------------------------------------------------
(* The document store.                                                     *)

DocTitles == {<<"a">>, <<"a", " ">>}

UpdateContents ==
    { <<>>,
      <<"b", " ", "c">>,
      <<"-", "-", "-", "\n", "t", "i", "t", "l", "e", ":", " ", "7", "\n", "-", "-", "-", "\n",
        "#", " ", "h", "\n">> }

\* The paths read, update and delete are called with: the files there are
\* and a path where nothing is
DocArgs == (DOMAIN files) \cup {MissingDoc}

NextDocs ==
    \/ Tick
    \/ CreateDocument(DocTitles, {Str_NARRATIVE}, Subcategories)
    \/ ReadDocument(DocArgs)
    \/ UpdateDocument(DocArgs, UpdateContents)
    \/ DeleteDocument(DocArgs)

Spec == SeqInit /\ [][NextDocs]_vars

-----------------------------------------------------------------------------
(* Claims about the document store, checked under Spec.                    *)

\* C1: after create_document(root, T, C, S) succeeds, the returned record has
\* title T and a path whose file name is sanitize_filename(T) followed by
\* ".md", and read_document on that path returns a record whose title is T.
C1_CreateReadRoundTrip ==
    (last.op = "create_document" /\ last.result.ok) =>
        LET doc == last.result.document
            path == PathFromStr(doc.path)
            r == read_document(FS, path)
        IN  /\ doc.title = last.title
            /\ Last(path) = sanitize_filename(last.title) \o <<".">> \o Str_md
            /\ r.ok
            /\ r.document.title = last.title

\* C2: when create_document is called and a file already exists at the target
\* path, the call fails with the already-exists error and the file there is
\* the same after the call as before it.
C2_CreateOnExistingFails ==
    [][(last'.op = "create_document" /\ IsFile(FS, last'.path)) =>
         /\ ~last'.result.ok
         /\ last'.result.err = "AlreadyExists"
         /\ last'.path \in DOMAIN files'
         /\ files'[last'.path] = files[last'.path]]_vars

\* A create_document that met a file holding a content written by an update
C2_Witness ==
    /\ last.op = "create_document"
    /\ ~last.result.ok
    /\ last.result.err = "AlreadyExists"
    /\ IsFile(FS, last.path)
    /\ files[last.path].content \in UpdateContents

\* C10: update_document(p, c) on a path that does not exist fails with the
\* not-found error and leaves the filesystem unchanged; on an existing
\* document it succeeds, the file's content becomes exactly c and a following
\* read_document(p) returns content c.
C10_UpdateDocument ==
    [][last'.op = "update_document" =>
         /\ ~Exists(FS, last'.path) =>
               /\ ~last'.result.ok
               /\ last'.result.err = "NotFound"
               /\ dirs' = dirs
               /\ files' = files
         /\ IsFile(FS, last'.path) =>
               /\ last'.result.ok
               /\ last'.path \in DOMAIN files'
               /\ files'[last'.path].content = last'.content
               /\ read_document(FS', last'.path).ok
               /\ read_document(FS', last'.path).document.content = last'.content]_vars

\* An update that succeeded and left a non-empty content in the document
C10_Witness ==
    /\ last.op = "update_document"
    /\ last.result.ok
    /\ last.content # <<>>
    /\ IsFile(FS, last.path)
    /\ files[last.path].content = last.content

-----------------------------------------------------------------------------
(* read_document over file contents: the specification SpecParse starts    *)
(* with one document whose content is any text of up to MaxLines lines     *)
(* drawn from LineChoices, with or without a final line feed, and reads it. *)

LineChoices ==
    { <<"-", "-", "-">>,
      <<"t", "i", "t", "l", "e", ":", " ", "t">>,
      <<"t", "i", "t", "l", "e", ":", " ", "1", "2">>,
      <<"#", " ", "h">>,
      <<"b", " ", "c">>,
      <<>> }

RECURSIVE JoinLines(_)
JoinLines(ls) ==
    IF ls = <<>> THEN <<>>
    ELSE IF Len(ls) = 1 THEN ls[1]
    ELSE ls[1] \o <<NL>> \o JoinLines(Tail(ls))

ParseContents ==
    UNION {{JoinLines(ls), JoinLines(ls) \o <<NL>>} :
             ls \in UNION {[1..n -> LineChoices] : n \in 0..MaxLines}}

ParsePath == Join(DocDir(Join(CustomRoot, <<"n">>), Str_NARRATIVE, <<>>), <<"x", ".", "m", "d">>)

ParseInit ==
    /\ dirs = Prefixes(HomeDir) \cup Prefixes(Parent(ParsePath))
    /\ \E content \in ParseContents :
          files = (ParsePath :> [content |-> content, mtime |-> 0, btime |-> 0])
    /\ now = 0
    /\ nextId = 0
    /\ last = [op |-> "init"]
    /\ pc = <<>>
    /\ wtmp = <<>>
    /\ names = <<>>
    /\ inodes = <<>>

NextParse == ReadDocument({ParsePath})

SpecParse == ParseInit /\ [][NextParse]_vars

\* The text pieces between line feeds: the lines of a content, the last one
\* being what follows the last line feed
RawLines(content) == SplitOn(content, NL)

\* The trimmed text after the first ':' of the last of the lines whose
\* trimmed key is key: [some, text]
RawValue(lines, key) ==
    LET hits == {i \in 1..Len(lines) :
                   SplitOnce(lines[i], ":").found /\ Trim(SplitOnce(lines[i], ":").key) = key}
    IN  IF hits = {} THEN [some |-> FALSE, text |-> <<>>]
        ELSE [some |-> TRUE,
              text |-> Trim(SplitOnce(lines[CHOOSE i \in hits : \A j \in hits : i >= j], ":").value)]

\* The frontmatter lines and the body of a content as the storage form
\* defines them: with a first line "---" and a later line "---", the lines
\* between the two and the text after the closing one; else no lines and
\* the whole content
StorageForm(content) ==
    LET ls == RawLines(content)
        closing == {j \in 2..Len(ls) : ls[j] = <<"-", "-", "-">>}
        close == CHOOSE j \in closing : \A k \in closing : j <= k
    IN  IF ls[1] = <<"-", "-", "-">> /\ closing # {}
        THEN [frontmatter |-> SubSeq(ls, 2, close - 1),
              body |-> JoinLines(SubSeq(ls, close + 1, Len(ls)))]
        ELSE [frontmatter |-> <<>>, body |-> content]

\* C6: read_document derives title by strict priority: the value of the
\* frontmatter's title key when there is one (for every value, a value made
\* only of digits included); else the first body line starting with "# ",
\* the marker removed and trimmed; else the file's base name without
\* extension.
C6_TitlePriority ==
    (last.op = "read_document" /\ last.result.ok) =>
        LET fm == parse_frontmatter(files[last.path].content)
            block == SubSeq(files[last.path].content, 5,
                            Len(files[last.path].content) - Len(fm.body) - 5)
            title == RawValue(IF fm.map = <<>> THEN <<>> ELSE Lines(block), Str_title)
            h == FirstHeading(fm.body)
        IN  last.result.document.title =
                IF title.some THEN title.text
                ELSE IF h.some THEN Trim(From(h.line, 2))
                ELSE file_stem(Last(last.path))

\* C7: for a content whose first line is exactly "---" and that has a later
\* line that is exactly "---", read_document takes the lines between the two
\* as frontmatter and the text after the closing one as body, so wordCount
\* counts the body's tokens only; for a content whose first line is not
\* "---" the frontmatter is empty and the whole content is the body.
C7_FrontmatterSplit ==
    (last.op = "read_document" /\ last.result.ok) =>
        LET content == files[last.path].content
            form == StorageForm(content)
            fm == parse_frontmatter(content)
        IN  /\ fm.map = InsertLines(<<>>, form.frontmatter)
            /\ fm.body = form.body
            /\ last.result.document.word_count = count_words(form.body)

-----------------------------------------------------------------------------
(* The project store: SpecProjects.  Projects are created with a name that *)
(* holds a quote; update_document is called on the descriptor files there  *)
(* are, with texts that are no descriptor.                                 *)

DescriptorPaths == {Join(d, Str_project_json) : d \in ProjectDirs}

DescriptorContents ==
    { <<"{">>,
      <<"{", "\"", "i", "d", "\"", ":", "\"", "x", "\"", "}">> }

NextProjects ==
    \/ Tick
    \/ CreateProject({<<"q", "\"">>}, CustomPaths)
    \/ OpenProject
    \/ ListProjects
    \/ UpdateProject
    \/ UpdateDocument(DescriptorPaths \cap DOMAIN files, DescriptorContents)

SpecProjects == SeqInit /\ [][NextProjects]_vars

\* The project directory create_project derives from its arguments
ProjectPath(name, custom_path) ==
    IF custom_path # <<>> THEN Join(custom_path[1], name) ELSE Join(get_projects_root, name)

\* C3: for every name N and custom root R where R/N does not yet exist,
\* create_project(N, R) produces the directory R/N with the taxonomy
\* WORLD/{Cast,Places,Objects,Systems,Lore},
\* NARRATIVE/{Drafts,Final,Research,Planning}, cache, search and the file
\* project.json, and open_project(R/N) then succeeds and returns the id and
\* the name of the record create_project returned.
C3_CreateOpenRoundTrip ==
    [][(/\ last'.op = "create_project"
        /\ last'.custom_path # <<>>
        /\ ~Exists(FS, ProjectPath(last'.name, last'.custom_path))) =>
         LET P == ProjectPath(last'.name, last'.custom_path)
             opened == open_project(FS', P)
         IN  /\ last'.result.ok
             /\ \A i \in 1..Len(ProjectStructure(P)) : IsDir(FS', ProjectStructure(P)[i])
             /\ IsDir(FS', Join(P, Str_WORLD)) /\ IsDir(FS', Join(P, Str_NARRATIVE))
             /\ IsFile(FS', Join(P, Str_project_json))
             /\ opened.ok
             /\ opened.project.id = last'.result.project.id
             /\ opened.project.name = last'.result.project.name
             /\ opened.project.name = last'.name]_vars

\* A project created under the custom root with a name that holds a quote
C3_Witness ==
    /\ last.op = "create_project"
    /\ last.result.ok
    /\ last.custom_path = <<CustomRoot>>
    /\ last.name = <<"q", "\"">>
    /\ open_project(FS, Join(CustomRoot, last.name)).ok

\* C8: a project's id is immutable: once create_project has created a
\* project at path P with id X, open_project(P) returns id X after every
\* later call of the project store (update_project with any record,
\* open_project, list_projects, create_project).
C8_IdImmutable ==
    [][last'.op \in {"update_project", "open_project", "list_projects", "create_project", "tick"} =>
         \A P \in ProjectDirs :
            open_project(FS, P).ok =>
               /\ open_project(FS', P).ok
               /\ open_project(FS', P).project.id = open_project(FS, P).project.id]_vars

\* A directory holds a descriptor open_project accepts: the file is there,
\* it parses, and its id is not empty
ValidProject(fs, d) ==
    /\ IsFile(fs, Join(d, Str_project_json))
    /\ from_str(fs.files[Join(d, Str_project_json)].content).ok
    /\ from_str(fs.files[Join(d, Str_project_json)].content).project.id # <<>>

\* C9: open_project(D) succeeds if and only if D contains a readable,
\* parsable descriptor file whose id is non-empty; so every record returned
\* by open_project or list_projects has a non-empty id.
C9_ValidIffNonEmptyId ==
    /\ last.op = "open_project" =>
          /\ last.result.ok <=> ValidProject(FS, last.path)
          /\ last.result.ok => last.result.project.id # <<>>
    /\ last.op = "list_projects" =>
          \A i \in 1..Len(last.result.projects) : last.result.projects[i].id # <<>>

-----------------------------------------------------------------------------
(* The listings: documents and projects are created at different times and *)
(* listed, read_dir yielding the entries in any order.                      *)

ListTitles == {<<"a">>, <<"b">>}

NextList ==
    \/ Tick
    \/ CreateDocument(ListTitles, {Str_NARRATIVE}, {<<>>})
    \/ CreateDocument({<<"a">>}, {Str_NARRATIVE}, {<<Str_Drafts>>})
    \/ CreateDocument({<<"a">>}, {Str_WORLD}, {<<>>})
    \/ CreateProject(ProjectNames, {<<>>})
    \/ ListDocumentsInDir(DocDirs)
    \/ ListAllDocuments
    \/ ListProjects

SpecList == SeqInit /\ [][NextList]_vars

\* The records of the documents read_document reads among a set of paths
DocumentsRead(fs, paths) ==
    {read_document(fs, p).document : p \in {q \in paths : read_document(fs, q).ok}}

\* The markdown files at any depth under a project's WORLD and NARRATIVE
MarkdownUnder(fs, project_path) ==
    {p \in DOMAIN fs.files :
        /\ IsMarkdown(fs, p)
        /\ \E c \in {Str_WORLD, Str_NARRATIVE} :
              /\ Len(p) > Len(Join(project_path, c))
              /\ SubSeq(p, 1, Len(Join(project_path, c))) = Join(project_path, c)}

\* The directories under the projects root that open as projects
ProjectsOpened(fs) ==
    {d \in ReadDir(fs, get_projects_root) : IsDir(fs, d) /\ open_project(fs, d).ok}

\* Adjacent elements in descending order of modified_at
Descending(records) ==
    \A i \in 1..(Len(records) - 1) : records[i].modified_at >= records[i + 1].modified_at

\* C5: the list returned by list_documents_in_dir, by list_all_documents and
\* by list_projects is ordered by modified_at descending (each element's
\* modified_at is greater than or equal to the next one's) and is a
\* permutation of the records that were successfully read.
C5_ListsSortedDescending ==
    /\ (last.op = "list_documents_in_dir" /\ last.result.ok) =>
          LET listed == last.result.documents
              from == {p \in ReadDir(FS, last.path) : IsMarkdown(FS, p)}
          IN  /\ Descending(listed)
              /\ Len(listed) = Cardinality(from)
              /\ {listed[i] : i \in 1..Len(listed)} = DocumentsRead(FS, from)
    /\ (last.op = "list_all_documents" /\ last.result.ok) =>
          LET listed == last.result.documents
              from == MarkdownUnder(FS, last.path)
          IN  /\ Descending(listed)
              /\ Len(listed) = Cardinality(from)
              /\ {listed[i] : i \in 1..Len(listed)} = DocumentsRead(FS, from)
    /\ (last.op = "list_projects" /\ last.result.ok) =>
          LET listed == last.result.projects
          IN  /\ Descending(listed)
              /\ Len(listed) = Cardinality(ProjectsOpened(FS))
              /\ {listed[i] : i \in 1..Len(listed)} =
                    {open_project(FS, d).project : d \in ProjectsOpened(FS)}

\* A listing of two projects modified at different times that read_dir
\* yielded with the earlier one first
C5_Witness ==
    /\ last.op = "list_projects"
    /\ last.result.ok
    /\ Len(last.order) = 2
    /\ Len(last.result.projects) = 2
    /\ open_project(FS, last.order[1]).project.modified_at
          < open_project(FS, last.order[2]).project.modified_at
    /\ last.result.projects[1] = open_project(FS, last.order[2]).project

-----------------------------------------------------------------------------
(* The walk of list_all_documents.  The project directory is the user's:   *)
(* next to the documents the program creates under WORLD, NARRATIVE, their *)
(* subdirectories and other categories, it holds files the program did not *)
(* write, here a markdown file that is not UTF-8 and a file that is not    *)
(* markdown.                                                               *)

WalkInit ==
    /\ dirs = Prefixes(HomeDir)
                \cup Prefixes(DocDir(Join(CustomRoot, <<"n">>), Str_NARRATIVE, <<Str_Drafts>>))
    /\ files = (Join(DocDir(Join(CustomRoot, <<"n">>), Str_NARRATIVE, <<Str_Drafts>>),
                     <<"x", ".", "m", "d">>)
                    :> [content |-> <<"#", " ", BadByte>>, mtime |-> 0, btime |-> 0])
                @@ (Join(DocDir(Join(CustomRoot, <<"n">>), Str_NARRATIVE, <<>>),
                         <<"x", ".", "t", "x", "t">>)
                    :> [content |-> <<"x">>, mtime |-> 0, btime |-> 0])
    /\ now = 0
    /\ nextId = 0
    /\ last = [op |-> "init"]
    /\ pc = <<>>
    /\ wtmp = <<>>
    /\ names = <<>>
    /\ inodes = <<>>

NextWalk ==
    \/ Tick
    \/ CreateDocument({<<"a">>}, {Str_NARRATIVE, Str_WORLD, <<"X">>}, Subcategories)
    \/ CreateDocument({<<>>}, {Str_NARRATIVE}, {<<>>})
    \/ ListAllDocuments

SpecWalk == WalkInit /\ [][NextWalk]_vars

\* C12: list_all_documents succeeds, and the records it returns are, each
\* exactly once, the records of the regular files with extension md at any
\* depth under the project's WORLD or NARRATIVE that read_document reads; no
\* record is of a file outside these two directories, and a file whose read
\* fails has no record and does not fail the listing.
C12_ListAllDocuments ==
    last.op = "list_all_documents" =>
        LET listed == last.result.documents
            readable == {p \in MarkdownUnder(FS, last.path) : read_document(FS, p).ok}
        IN  /\ last.result.ok
            /\ \A p \in readable :
                  Cardinality({i \in DOMAIN listed :
                                  listed[i] = read_document(FS, p).document}) = 1
            /\ \A i \in DOMAIN listed :
                  \E p \in readable : listed[i] = read_document(FS, p).document

\* A listing that returns a document in a subdirectory of NARRATIVE, while a
\* markdown file exists outside the two directories and a markdown file
\* under NARRATIVE cannot be read
C12_Witness ==
    /\ last.op = "list_all_documents"
    /\ last.result.ok
    /\ \E i \in DOMAIN last.result.documents :
          Parent(PathFromStr(last.result.documents[i].path))
              = DocDir(last.path, Str_NARRATIVE, <<Str_Drafts>>)
    /\ \E p \in DOMAIN files :
          IsMarkdown(FS, p) /\ p \notin MarkdownUnder(FS, last.path)
    /\ \E p \in MarkdownUnder(FS, last.path) : ~read_document(FS, p).ok

-----------------------------------------------------------------------------
(* The files write_file touches.  Documents are created under NARRATIVE    *)
(* and in its subdirectory Drafts, and update_document is called on the    *)
(* paths that exist there, the subdirectory among them.                    *)

NextFrame ==
    \/ Tick
    \/ CreateDocument({<<"b">>, Str_Drafts}, {Str_NARRATIVE}, Subcategories)
    \/ UpdateDocument({DocDir(r, Str_NARRATIVE, <<Str_Drafts>>) : r \in DocProjectPaths}
                          \cup {DocPath(r, title, Str_NARRATIVE, <<>>) :
                                    r \in DocProjectPaths, title \in {<<"b">>, Str_Drafts}},
                      {<<"c">>})

SpecFrame == SeqInit /\ [][NextFrame]_vars

\* C13: a successful create_document or update_document, which writes its
\* target path p through write_file, changes only the file at p: every other
\* file in p's directory, a sibling with p's stem and the extension tmp
\* included, exists afterwards with the content it had, and the directory
\* holds no file afterwards that it did not hold before, p aside (no
\* temporary file remains).
C13_WriteChangesOnlyTarget ==
    [][(last'.op \in {"create_document", "update_document"} /\ last'.result.ok) =>
          /\ \A q \in DOMAIN files \ {last'.path} :
                Parent(q) = Parent(last'.path) =>
                    /\ q \in DOMAIN files'
                    /\ files'[q].content = files[q].content
          /\ \A q \in DOMAIN files' \ {last'.path} :
                Parent(q) = Parent(last'.path) => q \in DOMAIN files]_vars

-----------------------------------------------------------------------------
(* write_file under concurrency.  The commands are async and run in        *)
(* parallel, so calls of write_file interleave at the system calls they    *)
(* make: fs::write opens the temp path (creating the file or truncating    *)
(* the one there) and writes the content in one or more write calls,       *)
(* fs::rename then makes the target path name the temp file.  A file is an *)
(* inode; a path names an inode and an open file refers to one.            *)

Writers == {1, 2}

WritePath == Join(DocDir(Join(CustomRoot, <<"n">>), Str_NARRATIVE, <<>>), <<"d", ".", "m", "d">>)

\* let temp_path = path.with_extension("tmp")
TempPath == with_extension(WritePath, Str_tmp)

\* The content of the target before any call, and the contents written
OldContent == <<"o">>

WriteContents == {<<"a", "b">>, <<"c", "d">>}

Inodes == 1..(Cardinality(Writers) + 2)

NoHandle == [inode |-> 0, off |-> 0, content |-> <<>>]

\* The inodes a path names or an open file refers to
Referenced(nm, hs) == ({nm[n] : n \in DOMAIN nm} \cup {hs[w].inode : w \in DOMAIN hs}) \ {0}

\* An inode that nothing refers to is gone
Collect(nm, hs, ino) == [i \in Inodes |-> IF i \in Referenced(nm, hs) THEN ino[i] ELSE <<>>]

FreshInode == CHOOSE i \in Inodes \ Referenced(names, wtmp) :
                 \A j \in Inodes \ Referenced(names, wtmp) : i <= j

\* write(2) of piece at offset off: the bytes there are overwritten, a gap
\* before the offset reads as NUL bytes
WriteAt(data, off, piece) ==
    LET padded == IF Len(data) < off
                  THEN data \o [i \in 1..(off - Len(data)) |-> "NUL"] ELSE data
    IN  SubSeq(padded, 1, off) \o piece \o SubSeq(padded, off + Len(piece) + 1, Len(padded))

NoStore == UNCHANGED <<dirs, files, now, nextId>>

\* The target exists and holds OldContent, nothing is at the temp path and no
\* call is under way; the files of this specification are held in names and
\* inodes
WriteInit ==
    /\ dirs = Prefixes(HomeDir) \cup Prefixes(Parent(WritePath))
    /\ files = <<>>
    /\ now = 0
    /\ nextId = 0
    /\ last = [op |-> "init"]
    /\ pc = [w \in Writers |-> "idle"]
    /\ wtmp = [w \in Writers |-> NoHandle]
    /\ names = (WritePath :> 1) @@ (TempPath :> 0)
    /\ inodes = [i \in Inodes |-> IF i = 1 THEN OldContent ELSE <<>>]

\* write_file(path, content) is called; fs::write opens the temp path with
\* create and truncate
WriteOpen(w) ==
    \E content \in WriteContents :
        LET i == IF names[TempPath] = 0 THEN FreshInode ELSE names[TempPath]
        IN  /\ pc[w] = "idle"
            /\ pc' = [pc EXCEPT ![w] = "write"]
            /\ wtmp' = [wtmp EXCEPT ![w] = [inode |-> i, off |-> 0, content |-> content]]
            /\ names' = [names EXCEPT ![TempPath] = i]
            /\ inodes' = [inodes EXCEPT ![i] = <<>>]
            /\ last' = [op |-> "write_open", writer |-> w, content |-> content]
            /\ NoStore

\* fs::write writes the next piece of the content; after the last piece the
\* file is closed, and the call keeps only the content it was given
WriteChunk(w) ==
    /\ pc[w] = "write"
    /\ \E n \in 1..(Len(wtmp[w].content) - wtmp[w].off) :
          LET h == wtmp[w]
              piece == SubSeq(h.content, h.off + 1, h.off + n)
              done == h.off + n = Len(h.content)
              handles == [wtmp EXCEPT ![w] = IF done THEN [NoHandle EXCEPT !.content = h.content]
                                              ELSE [h EXCEPT !.off = h.off + n]]
          IN  /\ wtmp' = handles
              /\ pc' = [pc EXCEPT ![w] = IF done THEN "rename" ELSE "write"]
              /\ inodes' = Collect(names, handles,
                                   [inodes EXCEPT ![h.inode] = WriteAt(@, h.off, piece)])
              /\ last' = [op |-> "write_chunk", writer |-> w, content |-> h.content]
    /\ UNCHANGED names
    /\ NoStore

\* fs::rename(temp_path, path): the target path names the temp file and the
\* temp path is gone; fails when there is no file at the temp path
WriteRename(w) ==
    /\ pc[w] = "rename"
    /\ pc' = [pc EXCEPT ![w] = "idle"]
    /\ IF names[TempPath] = 0
       THEN /\ last' = [op |-> "write_file", writer |-> w, content |-> wtmp[w].content,
                        result |-> [ok |-> FALSE]]
            /\ UNCHANGED <<names, inodes>>
       ELSE /\ names' = [names EXCEPT ![WritePath] = names[TempPath], ![TempPath] = 0]
            /\ inodes' = Collect(names', wtmp, inodes)
            /\ last' = [op |-> "write_file", writer |-> w, content |-> wtmp[w].content,
                        result |-> [ok |-> TRUE]]
    /\ wtmp' = [wtmp EXCEPT ![w] = NoHandle]
    /\ NoStore

\* read_file on the target path
ReadTarget ==
    /\ last' = [op |-> "read_file",
                result |-> IF names[WritePath] = 0 THEN [ok |-> FALSE, content |-> <<>>]
                           ELSE [ok |-> TRUE, content |-> inodes[names[WritePath]]]]
    /\ UNCHANGED <<pc, wtmp, names, inodes>>
    /\ NoStore

NextWrite ==
    \/ \E w \in Writers : WriteOpen(w)
    \/ \E w \in Writers : WriteChunk(w)
    \/ \E w \in Writers : WriteRename(w)
    \/ ReadTarget

SpecWrite == WriteInit /\ [][NextWrite]_vars

\* C4: under any interleaving of write_file calls on one path (two or more of
\* them concurrent) with reads of that path, every read returns the content
\* the path held before a write or the complete content passed to one
\* write_file call, never an empty or partially written content.
C4_ReadsSeeCompleteContent ==
    last.op = "read_file" =>
        /\ last.result.ok
        /\ last.result.content \in {OldContent} \cup WriteContents

\* C11: when update_document calls on the same existing document run
\* concurrently (the target exists throughout, so each call passes its
\* existence check and proceeds to write_file), every call completes
\* successfully under every interleaving of the write-temp and rename steps,
\* and once no call is in progress the file holds the complete content given
\* to the call whose rename executed last.
C11_LastRenameWins ==
    [][last'.op = "write_file" =>
          /\ last'.result.ok
          /\ (\A w \in Writers : pc'[w] = "idle") =>
                 /\ names'[WritePath] # 0
                 /\ inodes'[names'[WritePath]] = last'.content]_vars

====
